---- MODULE Spec2Model ----
(***************************************************************************)
(* Reference names over the top-level index of an OCI image layout:        *)
(* oci/casext/refname.go (ResolveReference, UpdateReference,               *)
(* AddReferences, DeleteReference, ListReferences).                        *)
(*                                                                         *)
(* The store (GetIndex, PutIndex) and the graph walker (Engine.Walk) are   *)
(* collaborators of refname.go.  GetIndex and PutIndex are modelled as a   *)
(* read and an atomic replace of the variable index that may fail; Walk    *)
(* is modelled from its contract.                                          *)
(***************************************************************************)
EXTENDS Integers, Sequences, FiniteSets, TLC

\* ---------------------------------------------------------------- bounds
\* Longest index (number of top-level entries) the model explores.
MaxLen == 3

\* Longest index stored before two mutators run at the same time.
MaxConcurrentLen == 2

\* ------------------------------------------------------------ media types
MediaTypeDescriptor == "application/vnd.oci.descriptor.v1+json"
MediaTypeImageManifest == "application/vnd.oci.image.manifest.v1+json"
MediaTypeImageIndex == "application/vnd.oci.image.index.v1+json"
MediaTypeImageLayer == "application/vnd.oci.image.layer.v1.tar"
MediaTypeImageLayerGzip == "application/vnd.oci.image.layer.v1.tar+gzip"
MediaTypeImageLayerNonDistributable == "application/vnd.oci.image.layer.nondistributable.v1.tar"
MediaTypeImageLayerNonDistributableGzip == "application/vnd.oci.image.layer.nondistributable.v1.tar+gzip"
MediaTypeImageConfig == "application/vnd.oci.image.config.v1+json"
\* A media type outside the image-spec (a custom artifact).
MediaTypeCustom == "application/x-custom"

\* The "org.opencontainers.image.ref.name" annotation key, and another key.
AnnotationRefName == "org.opencontainers.image.ref.name"
AnnotationOther == "org.example.other"

\* isKnownMediaType with the image-index line left out.
isKnownMediaTypeNoIndex(mediaType) ==
    \/ mediaType = MediaTypeDescriptor
    \/ mediaType = MediaTypeImageManifest
    \/ mediaType = MediaTypeImageLayer
    \/ mediaType = MediaTypeImageLayerGzip
    \/ mediaType = MediaTypeImageLayerNonDistributable
    \/ mediaType = MediaTypeImageLayerNonDistributableGzip
    \/ mediaType = MediaTypeImageConfig

\* refname.go:29-38
isKnownMediaType(mediaType) ==
    \/ mediaType = MediaTypeDescriptor
    \/ mediaType = MediaTypeImageManifest
    \/ mediaType = MediaTypeImageIndex
    \/ mediaType = MediaTypeImageLayer
    \/ mediaType = MediaTypeImageLayerGzip
    \/ mediaType = MediaTypeImageLayerNonDistributable
    \/ mediaType = MediaTypeImageLayerNonDistributableGzip
    \/ mediaType = MediaTypeImageConfig

\* ------------------------------------------------------- annotation maps
\* A Go map[string]string: isNil tells the nil map from an empty one, kv is
\* the set of <<key, value>> pairs (at most one pair per key).
NilMap == [isNil |-> TRUE, kv |-> {}]
EmptyMap == [isNil |-> FALSE, kv |-> {}]
MakeMap(pairs) == [isNil |-> FALSE, kv |-> pairs]

\* ok of `v, ok := m[k]`.
HasKey(m, k) == \E p \in m.kv : p[1] = k
\* m[k]: the value stored under k, the zero value "" when k is absent (also
\* for the nil map).
Lookup(m, k) == IF HasKey(m, k) THEN (CHOOSE p \in m.kv : p[1] = k)[2] ELSE ""
\* m[k] = v on a non-nil map.
Store(m, k, v) == [isNil |-> FALSE, kv |-> {p \in m.kv : p[1] # k} \cup {<<k, v>>}]

\* ------------------------------------------------------------ descriptors
Descriptor(digest, mediaType, size, annotations) ==
    [digest |-> digest, mediaType |-> mediaType, size |-> size, annotations |-> annotations]

\* descriptor.Annotations[ispec.AnnotationRefName]
RefNameOf(descriptor) == Lookup(descriptor.annotations, AnnotationRefName)

\* ------------------------------------------------------------- blob graph
\* The blobs of the store: the media type, the size and the child digests a
\* blob's content lists.  "i1" is an image index over a manifest, a nested
\* index and a custom artifact; "m1" is listed twice below "i1".
Digests == {"i1", "i2", "w1", "m1", "m2", "m3", "u1", "c1", "l1", "l2", "l3", "l4"}

BlobMediaType(digest) ==
    CASE digest \in {"i1", "i2"} -> MediaTypeImageIndex
      [] digest = "w1" -> MediaTypeDescriptor
      [] digest \in {"m1", "m2", "m3"} -> MediaTypeImageManifest
      [] digest = "u1" -> MediaTypeCustom
      [] digest = "c1" -> MediaTypeImageConfig
      [] digest = "l1" -> MediaTypeImageLayer
      [] digest = "l2" -> MediaTypeImageLayerGzip
      [] digest = "l3" -> MediaTypeImageLayerNonDistributable
      [] digest = "l4" -> MediaTypeImageLayerNonDistributableGzip

BlobSize(digest) == IF digest \in {"i1", "m1"} THEN 1 ELSE 2

BlobChildren(digest) ==
    CASE digest = "i1" -> <<"m1", "i2", "u1", "c1">>
      [] digest = "i2" -> <<"w1", "l3", "m1">>
      [] digest = "w1" -> <<"m2">>
      [] digest = "m1" -> <<"c1", "l1">>
      [] digest = "m2" -> <<"c1", "l2", "l4">>
      [] digest = "m3" -> <<"c1", "l1">>
      [] digest = "u1" -> <<"m3">>
      [] OTHER -> << >>

\* The descriptor a parent blob holds for a child: no annotations.
BlobDescriptor(digest) ==
    Descriptor(digest, BlobMediaType(digest), BlobSize(digest), NilMap)

\* ------------------------------------------------------------ the walker
ErrSkipDescriptor == "ErrSkipDescriptor"

\* The visitor without the image-manifest exception: manifests are passed
\* through.
ResolveVisitorKnownOnly(descriptor, resolutions) ==
    IF isKnownMediaType(descriptor.mediaType)
    THEN [resolutions |-> resolutions, err |-> ""]
    ELSE [resolutions |-> Append(resolutions, descriptor), err |-> ErrSkipDescriptor]

\* The visitor that records a node and lets the walk descend below it.
ResolveVisitorNoPrune(descriptor, resolutions) ==
    IF isKnownMediaType(descriptor.mediaType) /\ descriptor.mediaType # MediaTypeImageManifest
    THEN [resolutions |-> resolutions, err |-> ""]
    ELSE [resolutions |-> Append(resolutions, descriptor), err |-> ""]

\* The visitor ResolveReference hands to Walk (refname.go:76-87): the
\* resolutions after the visit of descriptor and the error it returns ("" is
\* nil).
ResolveVisitor(descriptor, resolutions) ==
    IF isKnownMediaType(descriptor.mediaType) /\ descriptor.mediaType # MediaTypeImageManifest
    THEN [resolutions |-> resolutions, err |-> ""]
    ELSE [resolutions |-> Append(resolutions, descriptor), err |-> ErrSkipDescriptor]

\* Engine.Walk(root, visitor): visit a node, then its children in the order
\* the blob lists them, depth first; a node whose digest this walk has seen
\* is not visited again; ErrSkipDescriptor from the visitor skips the node's
\* children; a blob of `broken` cannot be read, which fails the walk.
\* st = [resolutions, seen, failed].
RECURSIVE WalkRecurse(_, _, _)
RECURSIVE WalkChildren(_, _, _)
WalkRecurse(descriptor, st, broken) ==
    IF st.failed \/ descriptor.digest \in st.seen THEN st
    ELSE LET v == ResolveVisitor(descriptor, st.resolutions)
             st1 == [resolutions |-> v.resolutions,
                     seen |-> st.seen \cup {descriptor.digest},
                     failed |-> FALSE]
         IN  IF v.err = ErrSkipDescriptor THEN st1
             ELSE IF descriptor.digest \in broken THEN [st1 EXCEPT !.failed = TRUE]
             ELSE WalkChildren(BlobChildren(descriptor.digest), st1, broken)

WalkChildren(children, st, broken) ==
    IF children = << >> THEN st
    ELSE WalkChildren(Tail(children),
                      WalkRecurse(BlobDescriptor(Head(children)), st, broken), broken)

\* e.Walk(ctx, root, visitor) with the resolutions collected so far: the
\* resolutions after the walk and whether the walk failed.
Walk(root, resolutions, broken) ==
    LET st == WalkRecurse(root, [resolutions |-> resolutions, seen |-> {}, failed |-> FALSE], broken)
    IN  [resolutions |-> st.resolutions, failed |-> st.failed]

\* ------------------------------------------------------------- handlers
\* Each handler is a function of the stored index, its arguments and the
\* faults of the store during the call (getFails: GetIndex returns an
\* error; putFails: PutIndex returns an error; broken: the blobs Walk
\* cannot read).  It yields
\*   index        the stored index after the call
\*   err          the returned error ("" is nil)
\*   refs         the []string returned (ListReferences)
\*   resolutions  the []Descriptor returned (ResolveReference)
\*   trace        the calls made on the engine, in order
\*   warnings     the number of log.Warn calls
\*   caller       the descriptors passed in, as the caller sees them after
\*                the call
ErrGetIndex == "get top-level index"
ErrPutIndex == "replace index"
ErrWalk == "walk"

Return(idx, err, refs, resolutions, trace, warnings, caller) ==
    [index |-> idx, err |-> err, refs |-> refs, resolutions |-> resolutions,
     trace |-> trace, warnings |-> warnings, caller |-> caller]

\* The filter that drops only the first matching entry.
FilterOutFirstOnly(manifests, refname) ==
    LET hits == {i \in 1..Len(manifests) : RefNameOf(manifests[i]) = refname}
    IN  IF hits = {} THEN manifests
        ELSE LET first == CHOOSE i \in hits : \A j \in hits : i <= j
             IN  SubSeq(manifests, 1, first - 1) \o SubSeq(manifests, first + 1, Len(manifests))

\* The entries of manifests whose reference annotation is not refname, in
\* order (the loops at refname.go:110 and refname.go:184).
FilterOut(manifests, refname) ==
    SelectSeq(manifests, LAMBDA descriptor : RefNameOf(descriptor) # refname)

\* Tagging that gives the entry a fresh map holding the reference name only.
SetRefNameFreshMap(descriptor, refname) ==
    [descriptor EXCEPT !.annotations = Store(EmptyMap, AnnotationRefName, refname)]

\* The descriptor with refname written into its annotations
\* (refname.go:121-124 and refname.go:158-161).
SetRefName(descriptor, refname) ==
    [descriptor EXCEPT !.annotations =
        Store(IF @.isNil THEN EmptyMap ELSE @, AnnotationRefName, refname)]

\* The caller's descriptor after the handler tagged its copy: the struct is
\* passed by value, the annotations map by reference, so the write goes
\* through to the caller's map unless that map was nil.
CallerView(descriptor, refname) ==
    IF descriptor.annotations.isNil THEN descriptor ELSE SetRefName(descriptor, refname)

SeqMap(Op(_), s) == [i \in 1..Len(s) |-> Op(s[i])]

\* The loop over the roots with the resolutions deduplicated by digest.
RECURSIVE WalkRootsDedup(_, _, _, _)
WalkRootsDedup(roots, resolutions, trace, broken) ==
    IF roots = << >> THEN [resolutions |-> resolutions, trace |-> trace, failed |-> FALSE]
    ELSE LET w == Walk(Head(roots), << >>, broken)
             fresh == SelectSeq(w.resolutions, LAMBDA d :
                          \A i \in 1..Len(resolutions) : resolutions[i].digest # d.digest)
         IN  IF w.failed
             THEN [resolutions |-> resolutions \o fresh, trace |-> Append(trace, "Walk"), failed |-> TRUE]
             ELSE WalkRootsDedup(Tail(roots), resolutions \o fresh, Append(trace, "Walk"), broken)

\* The loop over the roots that goes on to the next root after a failed walk.
RECURSIVE WalkRootsSkipsFailed(_, _, _, _)
WalkRootsSkipsFailed(roots, resolutions, trace, broken) ==
    IF roots = << >> THEN [resolutions |-> resolutions, trace |-> trace, failed |-> FALSE]
    ELSE LET w == Walk(Head(roots), resolutions, broken)
         IN  WalkRootsSkipsFailed(Tail(roots), w.resolutions, Append(trace, "Walk"), broken)

\* The loop over the roots (refname.go:73-90): the first failed walk ends it.
RECURSIVE WalkRoots(_, _, _, _)
WalkRoots(roots, resolutions, trace, broken) ==
    IF roots = << >> THEN [resolutions |-> resolutions, trace |-> trace, failed |-> FALSE]
    ELSE LET w == Walk(Head(roots), resolutions, broken)
         IN  IF w.failed
             THEN [resolutions |-> w.resolutions, trace |-> Append(trace, "Walk"), failed |-> TRUE]
             ELSE WalkRoots(Tail(roots), w.resolutions, Append(trace, "Walk"), broken)

\* refname.go:58-69
RootsOf(manifests, refname) ==
    SelectSeq(manifests, LAMBDA descriptor : RefNameOf(descriptor) = refname)

ResolveReferenceRun(idx, refname, getFails, broken) ==
    IF getFails THEN Return(idx, ErrGetIndex, << >>, << >>, <<"GetIndex">>, 0, << >>)
    ELSE LET w == WalkRoots(RootsOf(idx, refname), << >>, <<"GetIndex">>, broken)
         IN  IF w.failed
             THEN Return(idx, ErrWalk, << >>, << >>, w.trace, 0, << >>)
             ELSE Return(idx, "", << >>, w.resolutions, w.trace, 0, << >>)

\* UpdateReference that puts the new entry in front of the kept ones.
UpdateReferenceRunPrepends(idx, refname, descriptor, getFails, putFails) ==
    IF getFails THEN Return(idx, ErrGetIndex, << >>, << >>, <<"GetIndex">>, 0, <<descriptor>>)
    ELSE LET kept == FilterOut(idx, refname)
             warnings == IF Len(kept) - Len(idx) > 1 THEN 1 ELSE 0
             caller == <<CallerView(descriptor, refname)>>
         IN  Return(IF putFails THEN idx ELSE <<SetRefName(descriptor, refname)>> \o kept,
                    IF putFails THEN ErrPutIndex ELSE "",
                    << >>, << >>, <<"GetIndex", "PutIndex">>, warnings, caller)

\* UpdateReference that returns nil when PutIndex failed.
UpdateReferenceRunDropsPutError(idx, refname, descriptor, getFails, putFails) ==
    IF getFails THEN Return(idx, ErrGetIndex, << >>, << >>, <<"GetIndex">>, 0, <<descriptor>>)
    ELSE LET kept == FilterOut(idx, refname)
             warnings == IF Len(kept) - Len(idx) > 1 THEN 1 ELSE 0
             caller == <<CallerView(descriptor, refname)>>
         IN  Return(IF putFails THEN idx ELSE Append(kept, SetRefName(descriptor, refname)),
                    "", << >>, << >>, <<"GetIndex", "PutIndex">>, warnings, caller)

\* refname.go:101-133
UpdateReferenceRun(idx, refname, descriptor, getFails, putFails) ==
    IF getFails THEN Return(idx, ErrGetIndex, << >>, << >>, <<"GetIndex">>, 0, <<descriptor>>)
    ELSE LET kept == FilterOut(idx, refname)
             warnings == IF Len(kept) - Len(idx) > 1 THEN 1 ELSE 0
             newIndex == Append(kept, SetRefName(descriptor, refname))
             caller == <<CallerView(descriptor, refname)>>
         IN  IF putFails
             THEN Return(idx, ErrPutIndex, << >>, << >>, <<"GetIndex", "PutIndex">>, warnings, caller)
             ELSE Return(newIndex, "", << >>, << >>, <<"GetIndex", "PutIndex">>, warnings, caller)

\* AddReferences that first drops the entries already tagged refname, as
\* UpdateReference does.
AddReferencesRunReplacing(idx, refname, descriptors, getFails, putFails) ==
    IF Len(descriptors) = 0 THEN Return(idx, "", << >>, << >>, << >>, 0, descriptors)
    ELSE IF getFails THEN Return(idx, ErrGetIndex, << >>, << >>, <<"GetIndex">>, 0, descriptors)
    ELSE LET warnings == IF Len(descriptors) > 1 THEN 1 ELSE 0
             convertedDescriptors == SeqMap(LAMBDA d : SetRefName(d, refname), descriptors)
             newIndex == FilterOut(idx, refname) \o convertedDescriptors
             caller == SeqMap(LAMBDA d : CallerView(d, refname), descriptors)
         IN  IF putFails
             THEN Return(idx, ErrPutIndex, << >>, << >>, <<"GetIndex", "PutIndex">>, warnings, caller)
             ELSE Return(newIndex, "", << >>, << >>, <<"GetIndex", "PutIndex">>, warnings, caller)

\* AddReferences without the early return for an empty argument list.
AddReferencesRunNoEarlyReturn(idx, refname, descriptors, getFails, putFails) ==
    IF getFails THEN Return(idx, ErrGetIndex, << >>, << >>, <<"GetIndex">>, 0, descriptors)
    ELSE LET warnings == IF Len(descriptors) > 1 THEN 1 ELSE 0
             convertedDescriptors == SeqMap(LAMBDA d : SetRefName(d, refname), descriptors)
             newIndex == idx \o convertedDescriptors
             caller == SeqMap(LAMBDA d : CallerView(d, refname), descriptors)
         IN  IF putFails
             THEN Return(idx, ErrPutIndex, << >>, << >>, <<"GetIndex", "PutIndex">>, warnings, caller)
             ELSE Return(newIndex, "", << >>, << >>, <<"GetIndex", "PutIndex">>, warnings, caller)

AddReferencesRun(idx, refname, descriptors, getFails, putFails) ==
    IF Len(descriptors) = 0 THEN Return(idx, "", << >>, << >>, << >>, 0, descriptors)
    ELSE IF getFails THEN Return(idx, ErrGetIndex, << >>, << >>, <<"GetIndex">>, 0, descriptors)
    ELSE LET warnings == IF Len(descriptors) > 1 THEN 1 ELSE 0
             convertedDescriptors == SeqMap(LAMBDA d : SetRefName(d, refname), descriptors)
             newIndex == idx \o convertedDescriptors
             caller == SeqMap(LAMBDA d : CallerView(d, refname), descriptors)
         IN  IF putFails
             THEN Return(idx, ErrPutIndex, << >>, << >>, <<"GetIndex", "PutIndex">>, warnings, caller)
             ELSE Return(newIndex, "", << >>, << >>, <<"GetIndex", "PutIndex">>, warnings, caller)

\* DeleteReference that returns without PutIndex when no entry was removed.
DeleteReferenceRunSkipsUnchanged(idx, refname, getFails, putFails) ==
    IF getFails THEN Return(idx, ErrGetIndex, << >>, << >>, <<"GetIndex">>, 0, << >>)
    ELSE LET newIndex == FilterOut(idx, refname)
             warnings == IF Len(newIndex) - Len(idx) > 1 THEN 1 ELSE 0
         IN  IF newIndex = idx
             THEN Return(idx, "", << >>, << >>, <<"GetIndex">>, warnings, << >>)
             ELSE IF putFails
             THEN Return(idx, ErrPutIndex, << >>, << >>, <<"GetIndex", "PutIndex">>, warnings, << >>)
             ELSE Return(newIndex, "", << >>, << >>, <<"GetIndex", "PutIndex">>, warnings, << >>)

\* refname.go:175-200
DeleteReferenceRun(idx, refname, getFails, putFails) ==
    IF getFails THEN Return(idx, ErrGetIndex, << >>, << >>, <<"GetIndex">>, 0, << >>)
    ELSE LET newIndex == FilterOut(idx, refname)
             warnings == IF Len(newIndex) - Len(idx) > 1 THEN 1 ELSE 0
         IN  IF putFails
             THEN Return(idx, ErrPutIndex, << >>, << >>, <<"GetIndex", "PutIndex">>, warnings, << >>)
             ELSE Return(newIndex, "", << >>, << >>, <<"GetIndex", "PutIndex">>, warnings, << >>)

\* The loop of ListReferences without the `ok` test.
RefsOfValues(manifests) ==
    SeqMap(RefNameOf, manifests)

\* refname.go:212-218
RefsOf(manifests) ==
    SeqMap(RefNameOf, SelectSeq(manifests, LAMBDA descriptor :
        HasKey(descriptor.annotations, AnnotationRefName)))

ListReferencesRun(idx, getFails) ==
    IF getFails THEN Return(idx, ErrGetIndex, << >>, << >>, <<"GetIndex">>, 0, << >>)
    ELSE Return(idx, "", RefsOf(idx), << >>, <<"GetIndex">>, 0, << >>)

\* ------------------------------------------------------------ the inputs
\* Reference names passed to the handlers; "" is the empty reference name.
RefNames == {"", "a"}

\* Entries the stored index may hold before the first call: written by any
\* tool, so also entries without annotations (a nil map), with annotations
\* but no reference name, and with an empty reference name.
TopDescriptors ==
    { Descriptor("i1", MediaTypeImageIndex, 1, NilMap),
      Descriptor("c1", MediaTypeImageConfig, 2, MakeMap({<<AnnotationOther, "x">>})),
      Descriptor("m1", MediaTypeImageManifest, 1, MakeMap({<<AnnotationRefName, "a">>})),
      Descriptor("i1", MediaTypeImageIndex, 1, MakeMap({<<AnnotationRefName, "a">>})),
      Descriptor("u1", MediaTypeCustom, 2,
                 MakeMap({<<AnnotationRefName, "">>, <<AnnotationOther, "x">>})) }

\* Descriptors passed to UpdateReference and AddReferences: one with a nil
\* map, one with an empty map, one with a map that carries another
\* reference name.
ArgManifest == Descriptor("m1", MediaTypeImageManifest, 1, NilMap)
ArgManifestEmptyMap == Descriptor("m1", MediaTypeImageManifest, 1, EmptyMap)
ArgCustom ==
    Descriptor("u1", MediaTypeCustom, 2,
               MakeMap({<<AnnotationRefName, "b">>, <<AnnotationOther, "x">>}))
ArgDescriptors == {ArgManifest, ArgManifestEmptyMap, ArgCustom}

\* The descriptor lists passed to AddReferences.
ArgLists ==
    { << >>, <<ArgManifest>>, <<ArgManifest, ArgCustom>>,
      <<ArgManifestEmptyMap, ArgManifest>> }

\* What the store does during one call: GetIndex fails, PutIndex fails, or
\* neither.
StoreFaults ==
    { [getFails |-> FALSE, putFails |-> FALSE],
      [getFails |-> TRUE, putFails |-> FALSE],
      [getFails |-> FALSE, putFails |-> TRUE] }

\* The blobs a walk may fail to read.
BrokenSets == {{}, {"i2"}}

\* What the store does during one ResolveReference: GetIndex fails, or the
\* walks meet the blobs that cannot be read.
ResolveFaults ==
    { [getFails |-> TRUE, putFails |-> FALSE, broken |-> {}] }
      \cup { [getFails |-> FALSE, putFails |-> FALSE, broken |-> b] : b \in BrokenSets }

SeqsUpTo(S, n) == UNION {[1..k -> S] : k \in 0..n}

\* ----------------------------------------------------------------- state
VARIABLES
    index,  \* the stored top-level index: index.Manifests
    pre,    \* the stored index when the last call began
    op,     \* the last call: [name, refname, descriptors]
    faults, \* what the store did during the last call: [getFails, putFails, broken]
    ret,    \* what the last call returned and did (see Return)
    mutator, \* two mutators running at once: each one's call, next step,
             \* fetched index and error (see Idle)
    steps   \* the store calls of the two mutators, in the order they happened

vars == <<index, pre, op, faults, ret, mutator, steps>>

\* The two callers that run a mutator at the same time.
Procs == {1, 2}

\* A caller that has not called yet.  pc is the store call it makes next
\* ("done" once it has returned), snapshot the index its GetIndex returned.
Idle ==
    [call |-> [name |-> "none", refname |-> "", descriptors |-> << >>],
     pc |-> "GetIndex", snapshot |-> << >>, err |-> ""]

Call(name, refname, descriptors) ==
    [name |-> name, refname |-> refname, descriptors |-> descriptors]

Faults(getFails, putFails, broken) ==
    [getFails |-> getFails, putFails |-> putFails, broken |-> broken]

Init ==
    /\ index \in SeqsUpTo(TopDescriptors, MaxLen)
    /\ pre = index
    /\ op = Call("none", "", << >>)
    /\ faults = Faults(FALSE, FALSE, {})
    /\ ret = Return(index, "", << >>, << >>, << >>, 0, << >>)
    /\ mutator = [p \in Procs |-> Idle]
    /\ steps = << >>

\* One call of a handler, from entry to return: r is the handler's outcome
\* under the store faults f.  The model keeps the index within MaxLen
\* entries.
Finish(call, f, r) ==
    /\ Len(r.index) <= MaxLen
    /\ index' = r.index
    /\ pre' = index
    /\ op' = call
    /\ faults' = f
    /\ ret' = r
    /\ UNCHANGED <<mutator, steps>>

ResolveReference ==
    \E refname \in RefNames, f \in ResolveFaults :
        Finish(Call("ResolveReference", refname, << >>),
               Faults(f.getFails, FALSE, f.broken),
               ResolveReferenceRun(index, refname, f.getFails, f.broken))

UpdateReference ==
    \E refname \in RefNames, descriptor \in ArgDescriptors, f \in StoreFaults :
        Finish(Call("UpdateReference", refname, <<descriptor>>),
               Faults(f.getFails, f.putFails, {}),
               UpdateReferenceRun(index, refname, descriptor, f.getFails, f.putFails))

AddReferences ==
    \E refname \in RefNames, descriptors \in ArgLists, f \in StoreFaults :
        Finish(Call("AddReferences", refname, descriptors),
               Faults(f.getFails, f.putFails, {}),
               AddReferencesRun(index, refname, descriptors, f.getFails, f.putFails))

DeleteReference ==
    \E refname \in RefNames, f \in StoreFaults :
        Finish(Call("DeleteReference", refname, << >>),
               Faults(f.getFails, f.putFails, {}),
               DeleteReferenceRun(index, refname, f.getFails, f.putFails))

ListReferences ==
    \E getFails \in BOOLEAN :
        Finish(Call("ListReferences", "", << >>),
               Faults(getFails, FALSE, {}),
               ListReferencesRun(index, getFails))

Next ==
    \/ ResolveReference
    \/ UpdateReference
    \/ AddReferences
    \/ DeleteReference
    \/ ListReferences

Spec == Init /\ [][Next]_vars

\* ------------------------------------------------- terms of the properties
\* The last call was `name` and returned a nil error.
Succeeded(name) == op.name = name /\ ret.err = ""

\* An entry carries the reference annotation with value refname.
TaggedWith(descriptor, refname) ==
    /\ HasKey(descriptor.annotations, AnnotationRefName)
    /\ Lookup(descriptor.annotations, AnnotationRefName) = refname

\* An entry carries no reference annotation (a nil map, or no such key).
Untagged(descriptor) == ~HasKey(descriptor.annotations, AnnotationRefName)

\* The positions of s whose entry satisfies Test.
Positions(s, Test(_)) == {i \in 1..Len(s) : Test(s[i])}

\* The k-th smallest element of a set of numbers.
Nth(S, k) == CHOOSE x \in S : Cardinality({y \in S : y < x}) = k - 1

\* The entries of s at the positions P, in order.
Pick(s, P) == [k \in 1..Cardinality(P) |-> s[Nth(P, k)]]

\* s is a subsequence of t: the entries of s occur in t in the same order.
RECURSIVE IsSubsequence(_, _)
IsSubsequence(s, t) ==
    IF s = << >> THEN TRUE
    ELSE IF t = << >> THEN FALSE
    ELSE IF Head(s) = Head(t) THEN IsSubsequence(Tail(s), Tail(t))
    ELSE IsSubsequence(s, Tail(t))

\* descriptor is d tagged with refname: the blob of d, a non-nil map that
\* maps the reference annotation to refname, every other annotation of d.
IsTagged(descriptor, d, refname) ==
    /\ descriptor.digest = d.digest
    /\ descriptor.mediaType = d.mediaType
    /\ descriptor.size = d.size
    /\ ~descriptor.annotations.isNil
    /\ TaggedWith(descriptor, refname)
    /\ {p \in descriptor.annotations.kv : p[1] # AnnotationRefName}
         = {p \in d.annotations.kv : p[1] # AnnotationRefName}

\* ------------------------------------------------------------ properties

\* C1: after a successful UpdateReference(r, D) the stored index holds
\* exactly one entry tagged r, that entry is D tagged with r and is the last
\* one, and every prior entry that was untagged or tagged with another name
\* is still there, unchanged and in the same relative order.
C1_UpdateReplacesOnlyTagged ==
    Succeeded("UpdateReference") =>
        LET r == op.refname
            D == op.descriptors[1]
            others == Pick(pre, Positions(pre, LAMBDA e : Untagged(e) \/ ~TaggedWith(e, r)))
        IN  /\ Cardinality(Positions(index, LAMBDA e : TaggedWith(e, r))) = 1
            /\ Len(index) >= 1
            /\ IsTagged(index[Len(index)], D, r)
            /\ IsSubsequence(others, SubSeq(index, 1, Len(index) - 1))

\* C2: after a successful AddReferences(r, Ds...) with Ds non-empty the
\* stored index is the prior sequence, unchanged and in order, followed by
\* the descriptors of Ds in argument order, each tagged with r; the number
\* of entries tagged r grows by exactly len(Ds).
C2_AddAppends ==
    (Succeeded("AddReferences") /\ op.descriptors # << >>) =>
        LET r == op.refname
            Ds == op.descriptors
            m == Len(pre)
        IN  /\ Len(index) = m + Len(Ds)
            /\ SubSeq(index, 1, m) = pre
            /\ \A j \in 1..Len(Ds) : IsTagged(index[m + j], Ds[j], r)
            /\ Cardinality(Positions(index, LAMBDA e : TaggedWith(e, r)))
                 = Cardinality(Positions(pre, LAMBDA e : TaggedWith(e, r))) + Len(Ds)

\* Two different descriptors were added to an index that already held an
\* entry tagged r.
C2_Witness ==
    /\ Succeeded("AddReferences")
    /\ Len(op.descriptors) = 2
    /\ op.descriptors[1] # op.descriptors[2]
    /\ \E i \in 1..Len(pre) : TaggedWith(pre[i], op.refname)
    /\ Len(index) = Len(pre) + 2

\* C3: a DeleteReference(r) that the store does not fail succeeds, and the
\* stored index is then exactly the entries of the prior index whose
\* reference annotation (the value the lookup reads, "" when the key is
\* absent) is not r, unchanged and in their order; no entry tagged r
\* remains, and with no matching entry the sequence is the prior one.
C3_DeleteFilters ==
    (op.name = "DeleteReference" /\ ~faults.getFails /\ ~faults.putFails) =>
        LET r == op.refname
            keep == Positions(pre, LAMBDA e : Lookup(e.annotations, AnnotationRefName) # r)
        IN  /\ ret.err = ""
            /\ index = Pick(pre, keep)
            /\ \A i \in 1..Len(index) : ~TaggedWith(index[i], r)
            /\ (keep = 1..Len(pre) => index = pre)

\* Two entries tagged r were deleted and an entry between them was kept.
C3_Witness ==
    /\ Succeeded("DeleteReference")
    /\ Len(pre) = 3
    /\ TaggedWith(pre[1], op.refname)
    /\ ~TaggedWith(pre[2], op.refname)
    /\ TaggedWith(pre[3], op.refname)
    /\ index = <<pre[2]>>

\* C4: ListReferences returns the reference-annotation value of each entry
\* that carries the key (an empty value included), in index order and with
\* duplicates, and nothing for the entries without the key.
C4_ListReturnsKeyed ==
    Succeeded("ListReferences") =>
        LET keyed == Positions(pre, LAMBDA e : ~Untagged(e))
        IN  /\ Len(ret.refs) = Cardinality(keyed)
            /\ \A k \in 1..Cardinality(keyed) :
                  \E v \in {p[2] : p \in pre[Nth(keyed, k)].annotations.kv} :
                      /\ <<AnnotationRefName, v>> \in pre[Nth(keyed, k)].annotations.kv
                      /\ ret.refs[k] = v

\* An index with an untagged entry, an entry with an empty reference name
\* and an entry tagged "a" lists as <<"", "a">>.
C4_Witness ==
    /\ Succeeded("ListReferences")
    /\ Len(pre) = 3
    /\ Untagged(pre[1])
    /\ ret.refs = <<"", "a">>

\* ------------------------------------------ terms of the resolver properties
\* The media types the walk passes through: known and not image-manifest.
PassedThrough ==
    { MediaTypeDescriptor, MediaTypeImageIndex, MediaTypeImageLayer,
      MediaTypeImageLayerGzip, MediaTypeImageLayerNonDistributable,
      MediaTypeImageLayerNonDistributableGzip, MediaTypeImageConfig }

\* The media types the image-spec knows.
KnownMediaTypes == PassedThrough \cup {MediaTypeImageManifest}

\* The elements of a sequence.
Range(s) == {s[i] : i \in 1..Len(s)}

\* The digests reachable from the digests S along edges that leave a blob of
\* a passed-through media type (S included).
RECURSIVE Reach(_)
Reach(S) ==
    LET T == S \cup {c \in Digests : \E g \in S :
                        /\ BlobMediaType(g) \in PassedThrough
                        /\ c \in Range(BlobChildren(g))}
    IN  IF T = S THEN S ELSE Reach(T)

\* The digests a walk from root may visit without descending past an
\* image-manifest or a blob of unknown media type.
Visitable(root) ==
    IF root.mediaType \in PassedThrough
    THEN {root.digest} \cup Reach(Range(BlobChildren(root.digest)))
    ELSE {root.digest}

MediaTypeAt(root, g) == IF g = root.digest THEN root.mediaType ELSE BlobMediaType(g)

\* The visitable digests that are image-manifests or of unknown media type.
Frontier(root) == {g \in Visitable(root) : MediaTypeAt(root, g) \notin PassedThrough}

\* The positions of the top-level entries ResolveReference(refname) starts from.
MatchingRoots(manifests, refname) ==
    Positions(manifests, LAMBDA e : Lookup(e.annotations, AnnotationRefName) = refname)

Resolved == Range(ret.resolutions)

\* C5: every descriptor a successful ResolveReference returns is an
\* image-manifest or of a media type outside the known set, and none lies
\* behind a recorded node: each is visitable from a matching root without
\* descending past an image-manifest or an unknown blob.  A root of unknown
\* media type contributes itself and nothing below it.
C5_ResolveStopsAtManifestOrUnknown ==
    Succeeded("ResolveReference") =>
        LET roots == MatchingRoots(pre, op.refname)
        IN  /\ \A d \in Resolved :
                  d.mediaType = MediaTypeImageManifest \/ d.mediaType \notin KnownMediaTypes
            /\ \A d \in Resolved : \E j \in roots : d.digest \in Frontier(pre[j])
            /\ \A j \in roots :
                  pre[j].mediaType \notin KnownMediaTypes =>
                      /\ pre[j] \in Resolved
                      /\ (roots = {j} => ret.resolutions = <<pre[j]>>)

\* The only matching root is the custom blob "u1", which has a child, and
\* the resolution is that root alone.
C5_Witness ==
    /\ Succeeded("ResolveReference")
    /\ \E j \in 1..Len(pre) :
          /\ MatchingRoots(pre, op.refname) = {j}
          /\ pre[j].mediaType = MediaTypeCustom
          /\ BlobChildren(pre[j].digest) # << >>
          /\ ret.resolutions = <<pre[j]>>

\* C6: a successful ResolveReference returns, for every matching root,
\* every image-manifest and every unknown-type descriptor reachable from it
\* through nodes of known non-manifest media type (the root included), and
\* returns none of the nodes it passed through; the branches after a pruned
\* node are explored.
C6_ResolveFollowsKnownNodes ==
    Succeeded("ResolveReference") =>
        \A j \in MatchingRoots(pre, op.refname) :
            /\ \A g \in Frontier(pre[j]) :
                  \E d \in Resolved :
                      d.digest = g /\ d.mediaType = MediaTypeAt(pre[j], g)
            /\ \A g \in Visitable(pre[j]) \ Frontier(pre[j]) :
                  \A d \in Resolved : d.digest # g
            /\ (pre[j].mediaType = MediaTypeImageIndex => pre[j] \notin Resolved)

\* The only matching root is the image index "i1": the resolution is the
\* manifest "m1", the manifest "m2" behind a nested index and a descriptor
\* wrapper, and the custom blob "u1", in that order, and not the root.
C6_Witness ==
    /\ Succeeded("ResolveReference")
    /\ \E j \in 1..Len(pre) :
          /\ MatchingRoots(pre, op.refname) = {j}
          /\ pre[j].digest = "i1"
    /\ [i \in 1..Len(ret.resolutions) |-> ret.resolutions[i].digest] = <<"m1", "m2", "u1">>

\* The concatenation of the sequences of a sequence.
RECURSIVE Flatten(_)
Flatten(ss) == IF ss = << >> THEN << >> ELSE Head(ss) \o Flatten(Tail(ss))

\* What one walk from root records, in discovery order.
PerRoot(root) == Walk(root, << >>, {}).resolutions

\* C7: the result of a successful ResolveReference(r) is the concatenation,
\* in index order of the matching top-level entries, of what the walk of
\* each records; nothing is deduplicated across roots.  With no matching
\* entry the call succeeds (unless GetIndex fails) with an empty result.
C7_ResolveConcatenates ==
    /\ Succeeded("ResolveReference") =>
          LET roots == Pick(pre, MatchingRoots(pre, op.refname))
          IN  ret.resolutions = Flatten([k \in 1..Len(roots) |-> PerRoot(roots[k])])
    /\ (op.name = "ResolveReference" /\ ~faults.getFails
          /\ MatchingRoots(pre, op.refname) = {}) =>
          ret.err = "" /\ ret.resolutions = << >>

\* Two matching roots, the manifest "m1" and the index "i1" above it: "m1"
\* is returned once for each root.
C7_Witness ==
    /\ Succeeded("ResolveReference")
    /\ Cardinality(MatchingRoots(pre, op.refname)) = 2
    /\ Cardinality({i \in 1..Len(ret.resolutions) : ret.resolutions[i].digest = "m1"}) = 2
    /\ Len(ret.resolutions) = 4

\* ------------------------------------------------- two calls in a row
\* A claim about a call B made right after a call A is stated twice: for
\* every step of the model that makes call B in the state call A left, and,
\* in that state, for the outcome of handler B on the stored index.

\* What C8 asks of the outcome res of ResolveReference(call.refname) made
\* right after the successful mutator `call`.
C8_Resolves(call, res) ==
    LET manifests == {D \in Range(call.descriptors) : D.mediaType = MediaTypeImageManifest}
    IN  /\ \A D \in manifests : \E d \in Range(res.resolutions) :
              d.digest = D.digest /\ d.mediaType = D.mediaType
        /\ (call.name = "UpdateReference" /\ manifests # {}) =>
              /\ Len(res.resolutions) = 1
              /\ IsTagged(res.resolutions[1], call.descriptors[1], call.refname)

C8_AfterMutator ==
    op.name \in {"AddReferences", "UpdateReference"} /\ ret.err = "" /\ op.descriptors # << >>

C8_State ==
    C8_AfterMutator =>
        \A broken \in BrokenSets :
            LET res == ResolveReferenceRun(index, op.refname, FALSE, broken)
            IN  /\ broken = {} => res.err = ""
                /\ res.err = "" => C8_Resolves(op, res)

C8_Step ==
    (C8_AfterMutator /\ op'.name = "ResolveReference" /\ op'.refname = op.refname /\ ret'.err = "")
        => C8_Resolves(op, ret')

\* C8: a ResolveReference(r) that succeeds right after a successful
\* AddReferences(r, Ds...) or UpdateReference(r, D) returns, for every
\* image-manifest D among the arguments, a descriptor with the digest and
\* media type of D; after UpdateReference the result comes from D alone.
C8_AddThenResolve == []C8_State /\ [][C8_Step]_vars

\* An image-manifest was added under a name that already had an image-index
\* entry, so the resolution of the name holds more than that manifest.
C8_Witness ==
    /\ Succeeded("AddReferences")
    /\ op.descriptors = <<ArgManifest>>
    /\ \E i \in 1..Len(pre) :
          TaggedWith(pre[i], op.refname) /\ pre[i].mediaType = MediaTypeImageIndex
    /\ Len(ResolveReferenceRun(index, op.refname, FALSE, {}).resolutions) > 1

\* C9: AddReferences(r) with no descriptor returns nil without a call of
\* GetIndex or PutIndex, whatever the store would do, and leaves the stored
\* index as it was.
C9_AddNothingIsNoOp ==
    (op.name = "AddReferences" /\ op.descriptors = << >>) =>
        /\ ret.err = ""
        /\ ret.trace = << >>
        /\ index = pre

\* AddReferences(r) with no descriptor against a store whose GetIndex fails.
C9_Witness ==
    /\ op.name = "AddReferences"
    /\ op.descriptors = << >>
    /\ faults.getFails
    /\ index # << >>
    /\ ret.err = ""

C10_State ==
    Succeeded("DeleteReference") =>
        LET second == DeleteReferenceRun(index, op.refname, FALSE, FALSE)
        IN  second.err = "" /\ second.index = index

C10_Step ==
    (Succeeded("DeleteReference") /\ op'.name = "DeleteReference" /\ op'.refname = op.refname
        /\ ~faults'.getFails /\ ~faults'.putFails)
        => (ret'.err = "" /\ index' = index)

\* C10: a second DeleteReference(r) right after a successful
\* DeleteReference(r) succeeds (unless the store fails it) and stores the
\* index the first call stored.
C10_DeleteIdempotent == []C10_State /\ [][C10_Step]_vars

\* A DeleteReference(r) that removed two entries and kept one.
C10_Witness ==
    /\ Succeeded("DeleteReference")
    /\ Len(pre) = 3
    /\ Len(index) = 1
    /\ DeleteReferenceRun(index, op.refname, FALSE, FALSE).index = index

\* ------------------------------------------------------ failures of the store
Mutators == {"UpdateReference", "AddReferences", "DeleteReference"}

\* The call is a mutator that reaches the store: AddReferences with no
\* descriptor returns before GetIndex.
Mutates ==
    /\ op.name \in Mutators
    /\ op.name = "AddReferences" => Len(op.descriptors) >= 1

\* The entries of s that the lookup of the reference annotation does not
\* match with refname, in order.
Kept(s, refname) ==
    Pick(s, Positions(s, LAMBDA e : Lookup(e.annotations, AnnotationRefName) # refname))

\* s is the complete sequence the call computes from old.
IsNewSequence(s, call, old) ==
    LET kept == Kept(old, call.refname)
    IN  CASE call.name = "UpdateReference" ->
               /\ Len(s) = Len(kept) + 1
               /\ SubSeq(s, 1, Len(kept)) = kept
               /\ IsTagged(s[Len(s)], call.descriptors[1], call.refname)
          [] call.name = "AddReferences" ->
               /\ Len(s) = Len(old) + Len(call.descriptors)
               /\ SubSeq(s, 1, Len(old)) = old
               /\ \A i \in 1..Len(call.descriptors) :
                      IsTagged(s[Len(old) + i], call.descriptors[i], call.refname)
          [] call.name = "DeleteReference" -> s = kept
          [] OTHER -> FALSE

\* C11: no mutation is partially applied.  When GetIndex fails a mutator
\* returns an error and never calls PutIndex; when PutIndex fails it returns
\* an error; in both cases the stored index is the one from before the call.
\* ListReferences and ResolveReference return an error and no result when
\* GetIndex fails.  After any mutator call the stored index is the prior
\* sequence or the complete new sequence, and after a successful one it is
\* the new sequence.
C11_NoPartialMutation ==
    /\ (Mutates /\ faults.getFails) =>
          /\ ret.err # ""
          /\ "PutIndex" \notin Range(ret.trace)
          /\ index = pre
    /\ (Mutates /\ faults.putFails) =>
          /\ ret.err # ""
          /\ index = pre
    /\ (op.name \in {"ListReferences", "ResolveReference"} /\ faults.getFails) =>
          /\ ret.err # ""
          /\ ret.refs = << >>
          /\ ret.resolutions = << >>
          /\ index = pre
    /\ Mutates => (index = pre \/ IsNewSequence(index, op, pre))
    /\ (Mutates /\ ret.err = "") => IsNewSequence(index, op, pre)

\* An UpdateReference whose PutIndex failed after it had dropped two entries
\* in memory: the stored index still holds them.
C11_Witness ==
    /\ op.name = "UpdateReference"
    /\ faults.putFails
    /\ ret.err = ErrPutIndex
    /\ Len(Kept(pre, op.refname)) + 2 = Len(pre)
    /\ index = pre

\* ------------------------------------------------------ failures of the walk
\* The walk from root fails: a blob it has to read (a visitable node the
\* visitor passes through) cannot be read.
WalkFails(root, broken) ==
    \E g \in Visitable(root) \cap broken : MediaTypeAt(root, g) \in PassedThrough

\* The number of walks the call started.
WalksStarted == Cardinality({i \in 1..Len(ret.trace) : ret.trace[i] = "Walk"})

\* C12: when the walk of a matching root fails, ResolveReference fails as a
\* whole: it returns an error and no descriptors, whatever earlier roots and
\* the failing root had recorded, and the failing root is the last one it
\* walks.  When no walk fails the call succeeds: the prune sentinel, which
\* the visitor returns at every recorded node, never fails it.
C12_WalkFailureFailsResolve ==
    (op.name = "ResolveReference" /\ ~faults.getFails) =>
        LET roots == Pick(pre, MatchingRoots(pre, op.refname))
            failing == {k \in 1..Len(roots) : WalkFails(roots[k], faults.broken)}
        IN  IF failing # {}
            THEN /\ ret.err = ErrWalk
                 /\ ret.resolutions = << >>
                 /\ WalksStarted = Nth(failing, 1)
                 /\ index = pre
            ELSE /\ ret.err = ""
                 /\ WalksStarted = Len(roots)

\* Three matching roots: the first records a manifest (and prunes there),
\* the second fails below a node it had recorded, the third is not walked.
C12_Witness ==
    /\ op.name = "ResolveReference"
    /\ ret.err = ErrWalk
    /\ ret.resolutions = << >>
    /\ LET roots == Pick(pre, MatchingRoots(pre, op.refname))
       IN  /\ Len(roots) = 3
           /\ PerRoot(roots[1]) # << >>
           /\ PerRoot(roots[2]) # << >>
           /\ WalkFails(roots[2], faults.broken)
           /\ WalksStarted = 2

\* ------------------------------------------------------------- the warning
\* C13: UpdateReference(r, D) and DeleteReference(r) warn exactly when more
\* than one entry of the fetched index matches r and is removed, and the
\* call still succeeds and commits when it warns.
C13_WarnsWhenSeveralRemoved ==
    (op.name \in {"UpdateReference", "DeleteReference"} /\ ~faults.getFails) =>
        LET removed == Len(pre) - Len(Kept(pre, op.refname))
        IN  /\ (ret.warnings >= 1) <=> (removed > 1)
            /\ (removed > 1 /\ ~faults.putFails) =>
                   (ret.err = "" /\ IsNewSequence(index, op, pre))

\* ------------------------------------------------- the calls to the store
\* How often the call made the store call named step.
Calls(step) == Cardinality({i \in 1..Len(ret.trace) : ret.trace[i] = step})

\* C15: a call that touches the store calls GetIndex exactly once, before
\* anything else.  UpdateReference, AddReferences with a descriptor and
\* DeleteReference then call PutIndex exactly once, as the last thing they do
\* with the store, also when the new sequence equals the fetched one (and not
\* at all when GetIndex failed).  ResolveReference and ListReferences never
\* call PutIndex and leave the stored index as it was, whether they succeed
\* or fail.  AddReferences with no descriptor does not touch the store.
C15_StoreAccessProtocol ==
    /\ ret.trace # << >> => (ret.trace[1] = "GetIndex" /\ Calls("GetIndex") = 1)
    /\ (op.name \in {"ResolveReference", "ListReferences"} \/ Mutates) => ret.trace # << >>
    /\ (Mutates /\ ~faults.getFails) =>
          /\ Calls("PutIndex") = 1
          /\ ret.trace[Len(ret.trace)] = "PutIndex"
    /\ (Mutates /\ faults.getFails) => Calls("PutIndex") = 0
    /\ op.name \in {"ResolveReference", "ListReferences"} =>
          /\ Calls("PutIndex") = 0
          /\ index = pre
    /\ (op.name = "AddReferences" /\ ~Mutates) => (ret.trace = << >> /\ index = pre)

\* A DeleteReference that removes nothing and still calls PutIndex.
C15_Witness ==
    /\ Succeeded("DeleteReference")
    /\ pre # << >>
    /\ Kept(pre, op.refname) = pre
    /\ ret.trace = <<"GetIndex", "PutIndex">>

\* ------------------------------------------------------------------ tagging
\* The entries a successful UpdateReference or AddReferences appended, in
\* order: the last Len(op.descriptors) entries of the stored index.
Appended == SubSeq(index, Len(index) - Len(op.descriptors) + 1, Len(index))

\* C16: every entry UpdateReference or AddReferences appends has a non-nil
\* annotations map whose reference annotation is the given refname, whether
\* the supplied descriptor had a nil map, an empty map or a map carrying
\* another reference name; the other annotations of the supplied descriptor,
\* its digest, media type and size are carried over.
C16_TaggingInvariant ==
    (Succeeded("UpdateReference") \/ Succeeded("AddReferences")) =>
        /\ Len(index) >= Len(op.descriptors)
        /\ \A i \in 1..Len(op.descriptors) :
              LET entry == Appended[i]
                  given == op.descriptors[i]
              IN  /\ ~entry.annotations.isNil
                  /\ HasKey(entry.annotations, AnnotationRefName)
                  /\ Lookup(entry.annotations, AnnotationRefName) = op.refname
                  /\ \A k \in {AnnotationOther} :
                        /\ HasKey(entry.annotations, k) <=> HasKey(given.annotations, k)
                        /\ Lookup(entry.annotations, k) = Lookup(given.annotations, k)
                  /\ {p[1] : p \in entry.annotations.kv}
                        = {p[1] : p \in given.annotations.kv} \cup {AnnotationRefName}
                  /\ entry.digest = given.digest
                  /\ entry.mediaType = given.mediaType
                  /\ entry.size = given.size

\* An AddReferences that appended a descriptor given with a nil map and one
\* given with another reference name and a further annotation.
C16_Witness ==
    /\ Succeeded("AddReferences")
    /\ Len(op.descriptors) = 2
    /\ op.descriptors[1].annotations.isNil
    /\ Lookup(op.descriptors[2].annotations, AnnotationRefName) \notin {"", op.refname}
    /\ HasKey(op.descriptors[2].annotations, AnnotationOther)
    /\ Lookup(Appended[2].annotations, AnnotationRefName) = op.refname

\* An UpdateReference that appended a descriptor given with an empty map.
C16_WitnessEmptyMap ==
    /\ Succeeded("UpdateReference")
    /\ op.descriptors[1].annotations = EmptyMap
    /\ ~Appended[1].annotations.isNil

\* -------------------------------------------------- unreferenced descriptors
\* C17: a top-level descriptor without the reference annotation is never
\* treated as a reference, for any refname, the empty one included:
\* ResolveReference starts a walk only from entries that carry the
\* annotation with value refname, DeleteReference keeps every entry without
\* the annotation, and ResolveReference(r) selects a root exactly when r is
\* in the result of ListReferences on the same index.
C17_UnreferencedNeverNamed ==
    /\ Succeeded("ResolveReference") =>
          WalksStarted = Cardinality(Positions(pre, LAMBDA e : TaggedWith(e, op.refname)))
    /\ (op.name = "ResolveReference" /\ ~faults.getFails) =>
          (WalksStarted >= 1 <=> op.refname \in Range(ListReferencesRun(pre, FALSE).refs))
    /\ Succeeded("DeleteReference") =>
          IsSubsequence(Pick(pre, Positions(pre, Untagged)), index)

\* ------------------------------------------------------ the caller's values
\* C18: after UpdateReference(r, D) or AddReferences(r, Ds...) returns, the
\* descriptors the caller passed, the contents of their annotations maps
\* included, are what they were before the call.
C18_MutatorsLeaveInputs ==
    op.name \in {"UpdateReference", "AddReferences"} => ret.caller = op.descriptors

\* ------------------------------------------------ update as delete then add
\* The stored index after a successful call of each mutator on idx.
AfterUpdate(idx, refname, descriptor) ==
    UpdateReferenceRun(idx, refname, descriptor, FALSE, FALSE).index

AfterDelete(idx, refname) == DeleteReferenceRun(idx, refname, FALSE, FALSE).index

AfterAdd(idx, refname, descriptors) ==
    AddReferencesRun(idx, refname, descriptors, FALSE, FALSE).index

\* From the stored index of any state: UpdateReference(r, D) stores what
\* DeleteReference(r) followed by AddReferences(r, D) stores, and with a
\* write of another mutator between the two the results can differ.
C19_State ==
    \A refname \in RefNames, descriptor \in ArgDescriptors :
        /\ AfterUpdate(index, refname, descriptor)
              = AfterAdd(AfterDelete(index, refname), refname, <<descriptor>>)
        /\ \E other \in ArgDescriptors :
              AfterUpdate(index, refname, descriptor)
                # AfterAdd(AfterAdd(AfterDelete(index, refname), refname, <<other>>),
                           refname, <<descriptor>>)

\* A successful AddReferences(r, D) right after a successful
\* DeleteReference(r) leaves what UpdateReference(r, D) stores from the
\* index the DeleteReference started from.
C19_Step ==
    ( /\ Succeeded("DeleteReference")
      /\ op'.name = "AddReferences"
      /\ op'.refname = op.refname
      /\ Len(op'.descriptors) = 1
      /\ ret'.err = "" )
    => index' = AfterUpdate(pre, op.refname, op'.descriptors[1])

\* C19: for every index, refname r and descriptor D, the stored index after
\* a successful UpdateReference(r, D) equals the stored index after a
\* successful DeleteReference(r) followed by AddReferences(r, D) from the
\* same index when nothing interleaves; with a write in between they can
\* differ.
C19_UpdateIsDeleteThenAdd == []C19_State /\ [][C19_Step]_vars

\* A DeleteReference(r) that removed two entries and kept one, with the
\* AddReferences(r, D) that completes the pair ready to run.
C19_Witness ==
    /\ Succeeded("DeleteReference")
    /\ Len(pre) = 3
    /\ Len(index) = 1
    /\ \E descriptor \in ArgDescriptors :
          /\ ENABLED Finish(Call("AddReferences", op.refname, <<descriptor>>),
                            Faults(FALSE, FALSE, {}),
                            AddReferencesRun(index, op.refname, <<descriptor>>, FALSE, FALSE))
          /\ AfterAdd(index, op.refname, <<descriptor>>)
                = AfterUpdate(pre, op.refname, descriptor)

\* ------------------------------------------------ two mutators at once
\* The handler of call run on idx.
MutatorRun(call, idx, getFails, putFails) ==
    CASE call.name = "UpdateReference" ->
           UpdateReferenceRun(idx, call.refname, call.descriptors[1], getFails, putFails)
      [] call.name = "AddReferences" ->
           AddReferencesRun(idx, call.refname, call.descriptors, getFails, putFails)
      [] call.name = "DeleteReference" ->
           DeleteReferenceRun(idx, call.refname, getFails, putFails)

\* What a mutator hands to PutIndex, computed from the current stored index
\* instead of the index it fetched.
PutArgumentFromStore(call, snapshot, stored) ==
    MutatorRun(call, stored, FALSE, FALSE).index

\* What a mutator hands to PutIndex: the new sequence, computed from the
\* index its own GetIndex returned (refname.go:109-128, 155-166, 183-195).
PutArgument(call, snapshot, stored) ==
    MutatorRun(call, snapshot, FALSE, FALSE).index

\* The mutator calls that run concurrently.
ConcurrentCalls ==
    UNION { { Call("UpdateReference", refname, <<ArgManifest>>),
              Call("AddReferences", refname, <<ArgCustom>>),
              Call("AddReferences", refname, <<ArgManifest, ArgCustom>>),
              Call("DeleteReference", refname, << >>) } : refname \in RefNames }

\* Both callers are about to call; pre keeps the index stored before them.
InitConcurrent ==
    /\ index \in SeqsUpTo(TopDescriptors, MaxConcurrentLen)
    /\ pre = index
    /\ op = Call("none", "", << >>)
    /\ faults = Faults(FALSE, FALSE, {})
    /\ ret = Return(index, "", << >>, << >>, << >>, 0, << >>)
    /\ mutator = [p \in Procs |-> Idle]
    /\ steps = << >>

\* Caller p enters a mutator, which calls GetIndex (refname.go:103, 144,
\* 177): on an error it returns, otherwise it holds the fetched index.
GetIndexStep(p) ==
    /\ mutator[p].pc = "GetIndex"
    /\ \E call \in ConcurrentCalls, getFails \in BOOLEAN :
          mutator' = [mutator EXCEPT ![p] =
              [call |-> call,
               pc |-> IF getFails THEN "done" ELSE "PutIndex",
               snapshot |-> IF getFails THEN << >> ELSE index,
               err |-> IF getFails THEN ErrGetIndex ELSE ""]]
    /\ steps' = Append(steps, <<p, "GetIndex">>)
    /\ UNCHANGED <<index, pre, op, faults, ret>>

\* Caller p's mutator builds the new sequence in memory and calls PutIndex
\* (refname.go:128, 166, 195), then returns; a PutIndex that fails leaves the
\* stored index as it is.
PutIndexStep(p) ==
    /\ mutator[p].pc = "PutIndex"
    /\ \E putFails \in BOOLEAN :
          /\ index' = IF putFails THEN index
                      ELSE PutArgument(mutator[p].call, mutator[p].snapshot, index)
          /\ mutator' = [mutator EXCEPT ![p].pc = "done",
                                        ![p].err = IF putFails THEN ErrPutIndex ELSE ""]
    /\ steps' = Append(steps, <<p, "PutIndex">>)
    /\ UNCHANGED <<pre, op, faults, ret>>

NextConcurrent == \E p \in Procs : GetIndexStep(p) \/ PutIndexStep(p)

SpecConcurrent == InitConcurrent /\ [][NextConcurrent]_vars

\* The position of caller p's store call named step in steps (0 when it has
\* not happened).
StepAt(p, step) ==
    IF \E i \in 1..Len(steps) : steps[i] = <<p, step>>
    THEN CHOOSE i \in 1..Len(steps) : steps[i] = <<p, step>>
    ELSE 0

BothSucceeded == \A p \in Procs : mutator[p].pc = "done" /\ mutator[p].err = ""

\* The caller whose PutIndex happened last, and the other one.
LastWriter == CHOOSE p \in Procs : \A q \in Procs : StepAt(q, "PutIndex") <= StepAt(p, "PutIndex")
FirstWriter == CHOOSE p \in Procs : p # LastWriter

\* C14: last writer wins.  In every interleaving of the GetIndex and
\* PutIndex calls of two mutators, once both have returned successfully the
\* stored index is the new sequence of the one whose PutIndex came last,
\* computed from the index its own GetIndex returned: from the first
\* writer's committed sequence when that GetIndex came after the first
\* writer's PutIndex, and otherwise from the index stored before both, in
\* which case the first writer's edit is gone and neither call reports it.
C14_LastWriterWins ==
    BothSucceeded =>
        LET last == mutator[LastWriter]
            first == mutator[FirstWriter]
            firstCommitted == MutatorRun(first.call, pre, FALSE, FALSE).index
        IN  /\ first.snapshot = pre
            /\ IsNewSequence(index, last.call, last.snapshot)
            /\ IF StepAt(LastWriter, "GetIndex") > StepAt(FirstWriter, "PutIndex")
               THEN /\ last.snapshot = firstCommitted
                    /\ IsNewSequence(firstCommitted, first.call, pre)
               ELSE /\ last.snapshot = pre
                    /\ IsNewSequence(index, last.call, pre)

\* The lost update: both callers fetched the index before either wrote, both
\* returned nil, and the entry the first writer appended is not stored.
C14_Witness ==
    /\ BothSucceeded
    /\ StepAt(LastWriter, "GetIndex") < StepAt(FirstWriter, "PutIndex")
    /\ mutator[FirstWriter].call.name = "UpdateReference"
    /\ mutator[LastWriter].call.name = "AddReferences"
    /\ mutator[FirstWriter].call.refname # mutator[LastWriter].call.refname
    /\ \A i \in 1..Len(index) :
          ~IsTagged(index[i], mutator[FirstWriter].call.descriptors[1],
                    mutator[FirstWriter].call.refname)
    /\ index # MutatorRun(mutator[LastWriter].call,
                          MutatorRun(mutator[FirstWriter].call, pre, FALSE, FALSE).index,
                          FALSE, FALSE).index

====
